---------------------------- MODULE Spec2Model ----------------------------
(***************************************************************************)
(* Entity management of the bullet plugin of gz-physics:                   *)
(* bullet/src/EntityManagementFeatures.cc.                                 *)
(*                                                                         *)
(* The store (worlds, models, links, collisions, joints and the            *)
(* child-to-parent map), the native bullet worlds (the rigid bodies and    *)
(* constraints attached to each) and the removal operations                *)
(* RemoveModel / RemoveModelByIndex / RemoveModelByName / ModelRemoved.    *)
(*                                                                         *)
(* Identities are std::size_t values.  std::size_t(-1), the invalid        *)
(* identity / index, is written Invalid; it is only ever compared for      *)
(* equality or used as an upper limit no counter reaches.                  *)
(***************************************************************************)
EXTENDS Integers, Sequences, FiniteSets, TLC

VARIABLES
  worlds,             \* std::unordered_map<size_t, WorldInfoPtr>
  models,             \* std::unordered_map<size_t, ModelInfoPtr>
  links,              \* std::unordered_map<size_t, LinkInfoPtr>
  collisions,         \* std::unordered_map<size_t, CollisionInfoPtr>
  joints,             \* std::unordered_map<size_t, JointInfoPtr>
  childIdToParentId,  \* child identity -> parent identity
  entityCount,        \* next identity to hand out
  bodies,             \* per world: rigid bodies attached to its btDiscreteDynamicsWorld
  constraints,        \* per world: constraints attached to its btDiscreteDynamicsWorld
  call,               \* history: the last operation called, its arguments and result
  pre,                \* history: the store as it was when that operation was called
  trace,              \* history: what that operation did, in program order
  worldCalls          \* history: how many times ConstructEmptyWorld was called

vars == <<worlds, models, links, collisions, joints, childIdToParentId,
          entityCount, bodies, constraints, call, pre, trace, worldCalls>>

----------------------------------------------------------------------------
(* Bounds of the model *)

MaxEntities == 6
MaxModels == 3
(* at most a third of the identities are worlds *)
MaxWorlds == MaxEntities \div 3

(* std::size_t(-1) *)
Invalid == -1

ModelNames == {"a", "b"}
WorldNames == {"w"}
(* a name no model is ever constructed with *)
NoSuchName == "nonexistent"

Ids == 0 .. MaxEntities

(* identities a caller can pass: every one handed out so far, and one that *)
(* was never handed out                                                    *)
ArgIds(st) == 0 .. st.entityCount

(* indices a caller can pass: one more than any world has models *)
ArgIndices == 0 .. MaxModels

(* the value operator[] default-constructs: a null LinkInfoPtr *)
NullLink == [model |-> Invalid, null |-> TRUE]

----------------------------------------------------------------------------
(* Finite maps *)

EmptyMap == <<>>

Erase(f, k) == [x \in (DOMAIN f) \ {k} |-> f[x]]

Insert(f, k, v) == IF k \in DOMAIN f THEN f ELSE (k :> v) @@ f

Assign(f, k, v) == [x \in (DOMAIN f) \cup {k} |-> IF x = k THEN v ELSE f[x]]

Min(S) == CHOOSE x \in S : \A y \in S : x <= y

RECURSIVE Ascending(_)
Ascending(S) == IF S = {} THEN <<>> ELSE <<Min(S)>> \o Ascending(S \ {Min(S)})

(* The store as one value *)
Store ==
  [worlds |-> worlds, models |-> models, links |-> links,
   collisions |-> collisions, joints |-> joints,
   childIdToParentId |-> childIdToParentId, entityCount |-> entityCount,
   bodies |-> bodies, constraints |-> constraints]

EmptyStore ==
  [worlds |-> EmptyMap, models |-> EmptyMap, links |-> EmptyMap,
   collisions |-> EmptyMap, joints |-> EmptyMap,
   childIdToParentId |-> EmptyMap, entityCount |-> 0,
   bodies |-> EmptyMap, constraints |-> EmptyMap]

NoCall ==
  [op |-> "none", id |-> Invalid, world |-> Invalid, index |-> Invalid,
   name |-> "", ret |-> FALSE]

----------------------------------------------------------------------------
(* Identity / index registry (Base.hh) *)

(* Position of _id among the entries of childIdToParentId that have the    *)
(* same parent, in the map's key order; Invalid when _id has no entry.     *)
idToIndexInContainer(st, id) ==
  LET m == st.childIdToParentId IN
  IF id \in DOMAIN m
    THEN Cardinality({k \in DOMAIN m : k < id /\ m[k] = m[id]})
    ELSE Invalid

(* The key of the _index-th entry of childIdToParentId whose parent is     *)
(* _containerId; Invalid when there is none.                               *)
indexInContainerToId(st, containerId, index) ==
  LET m == st.childIdToParentId
      sibs == {k \in DOMAIN m : m[k] = containerId}
      hits == {k \in sibs : Cardinality({k2 \in sibs : k2 < k}) = index}
  IN IF hits = {} THEN Invalid ELSE CHOOSE k \in hits : TRUE

----------------------------------------------------------------------------
(* Construction (Base.hh, SDFFeatures.cc) *)

(* Base::AddWorld: a new identity, a World record and an empty native world *)
AddWorld(st, name) ==
  LET id == st.entityCount IN
  [st EXCEPT !.entityCount = id + 1,
             !.worlds = Assign(@, id, [name |-> name]),
             !.bodies = Assign(@, id, {}),
             !.constraints = Assign(@, id, {})]

(* EntityManagementFeatures::ConstructEmptyWorld *)
ConstructEmptyWorld(st, name) == AddWorld(st, name)

(* Base::AddModel *)
AddModel(st, worldId, name) ==
  LET id == st.entityCount IN
  [st EXCEPT !.entityCount = id + 1,
             !.models = Assign(@, id, [name |-> name, world |-> worldId]),
             !.childIdToParentId = Insert(@, id, worldId)]

(* Base::AddLink, and the addRigidBody that link construction issues to    *)
(* the native world of the model's world                                   *)
AddLink(st, modelId) ==
  LET id == st.entityCount
      w == st.models[modelId].world IN
  [st EXCEPT !.entityCount = id + 1,
             !.links = Assign(@, id, [model |-> modelId, null |-> FALSE]),
             !.childIdToParentId = Insert(@, id, modelId),
             !.bodies = [@ EXCEPT ![w] = @ \cup {id}]]

(* Base::AddCollision: a collision of link linkId, owned by the link's model *)
AddCollision(st, linkId) ==
  LET id == st.entityCount
      m == st.links[linkId].model IN
  [st EXCEPT !.entityCount = id + 1,
             !.collisions = Assign(@, id, [model |-> m, link |-> linkId]),
             !.childIdToParentId = Insert(@, id, m)]

(* Base::AddJoint, and the addConstraint that joint construction issues to *)
(* the native world of the child link's model                              *)
AddJoint(st, childLinkId, parentLinkId) ==
  LET id == st.entityCount
      m == st.links[childLinkId].model
      w == st.models[m].world IN
  [st EXCEPT !.entityCount = id + 1,
             !.joints = Assign(@, id, [childLinkId |-> childLinkId,
                                       parentLinkId |-> parentLinkId]),
             !.childIdToParentId = Insert(@, id, m),
             !.constraints = [@ EXCEPT ![w] = @ \cup {id}]]

(* A link whose owner chain is live: what construction may attach to *)
LiveLinks(st) ==
  {l \in DOMAIN st.links : st.links[l].model \in DOMAIN st.models}

WorldOfLink(st, l) == st.models[st.links[l].model].world

----------------------------------------------------------------------------
(* The native world (btDiscreteDynamicsWorld) *)

(* bulletWorld->removeConstraint(joint): detaches it; nothing happens when *)
(* the constraint is not attached to this world                            *)
removeConstraint(st, bulletWorld, j) ==
  [st EXCEPT !.constraints = [@ EXCEPT ![bulletWorld] = @ \ {j}]]

(* bulletWorld->removeRigidBody(link) *)
removeRigidBody(st, bulletWorld, l) ==
  [st EXCEPT !.bodies = [@ EXCEPT ![bulletWorld] = @ \ {l}]]

Ev(ev, w, id) == [ev |-> ev, world |-> w, id |-> id]

----------------------------------------------------------------------------
(* EntityManagementFeatures::RemoveModelByIndex *)

(* this->links[jointInfo->childLinkId]: operator[] inserts a null entry    *)
(* when the key is absent                                                  *)
LinksSubscript(st, k) == [st EXCEPT !.links = Insert(@, k, NullLink)]

(* childLinkInfo->model.id == _modelIndex; through a null pointer the read *)
(* is undefined and ub is what it happens to yield                         *)
ChildLinkMatches(childLinkInfo, modelIndex, ub) ==
  IF childLinkInfo.null THEN ub ELSE childLinkInfo.model = modelIndex

(* lines 92-105: one pass over this->joints, keys in iteration order *)
RECURSIVE JointScan(_, _, _, _, _)
JointScan(r, keys, bulletWorld, modelIndex, ub) ==
  IF keys = <<>> THEN r
  ELSE
    LET j == Head(keys)
        jointInfo == r.st.joints[j]
        st1 == LinksSubscript(r.st, jointInfo.childLinkId)
        childLinkInfo == st1.links[jointInfo.childLinkId]
        st2 == removeConstraint(st1, bulletWorld, j)
        st3 == [st2 EXCEPT !.childIdToParentId = Erase(@, j)]
        st4 == [st3 EXCEPT !.joints = Erase(@, j)]
        next ==
          IF ChildLinkMatches(childLinkInfo, modelIndex, ub)
            THEN [st |-> st4,
                  trace |-> r.trace \o <<Ev("visitJoint", bulletWorld, j),
                                         Ev("removeConstraint", bulletWorld, j),
                                         Ev("eraseAux", bulletWorld, j),
                                         Ev("eraseJoint", bulletWorld, j)>>]
            ELSE [st |-> st1,
                  trace |-> r.trace \o <<Ev("visitJoint", bulletWorld, j)>>]
    IN JointScan(next, Tail(keys), bulletWorld, modelIndex, ub)

(* collisionInfo->model.id == _modelIndex *)
CollisionMatches(collisionInfo, modelIndex) == collisionInfo.model = modelIndex

(* lines 108-119: one pass over this->collisions *)
RECURSIVE CollisionScan(_, _, _, _)
CollisionScan(r, keys, bulletWorld, modelIndex) ==
  IF keys = <<>> THEN r
  ELSE
    LET c == Head(keys)
        collisionInfo == r.st.collisions[c]
        st1 == [r.st EXCEPT !.childIdToParentId = Erase(@, c)]
        st2 == [st1 EXCEPT !.collisions = Erase(@, c)]
        next ==
          IF CollisionMatches(collisionInfo, modelIndex)
            THEN [st |-> st2,
                  trace |-> r.trace \o <<Ev("visitCollision", bulletWorld, c),
                                         Ev("eraseAux", bulletWorld, c),
                                         Ev("eraseCollision", bulletWorld, c)>>]
            ELSE [st |-> r.st,
                  trace |-> r.trace \o <<Ev("visitCollision", bulletWorld, c)>>]
    IN CollisionScan(next, Tail(keys), bulletWorld, modelIndex)

(* linkInfo->model.id == _modelIndex *)
LinkMatches(linkInfo, modelIndex) == linkInfo.model = modelIndex

(* the link scan with the record and its child-to-parent entry erased     *)
(* ahead of the native detach                                              *)
RECURSIVE LinkScan_EraseFirst(_, _, _, _)
LinkScan_EraseFirst(r, keys, bulletWorld, modelIndex) ==
  IF keys = <<>> THEN r
  ELSE
    LET l == Head(keys)
        linkInfo == r.st.links[l]
        st1 == [r.st EXCEPT !.childIdToParentId = Erase(@, l)]
        st2 == [st1 EXCEPT !.links = Erase(@, l)]
        st3 == removeRigidBody(st2, bulletWorld, l)
        next ==
          IF LinkMatches(linkInfo, modelIndex)
            THEN [st |-> st3,
                  trace |-> r.trace \o <<Ev("visitLink", bulletWorld, l),
                                         Ev("eraseAux", bulletWorld, l),
                                         Ev("eraseLink", bulletWorld, l),
                                         Ev("removeRigidBody", bulletWorld, l)>>]
            ELSE [st |-> r.st,
                  trace |-> r.trace \o <<Ev("visitLink", bulletWorld, l)>>]
    IN LinkScan_EraseFirst(next, Tail(keys), bulletWorld, modelIndex)

(* the link scan stepping the iterator once more after an erase, so that   *)
(* the entry that follows an erased one is passed over                     *)
RECURSIVE LinkScan_SkipAfterErase(_, _, _, _)
LinkScan_SkipAfterErase(r, keys, bulletWorld, modelIndex) ==
  IF keys = <<>> THEN r
  ELSE
    LET l == Head(keys)
        linkInfo == r.st.links[l]
        st1 == removeRigidBody(r.st, bulletWorld, l)
        st2 == [st1 EXCEPT !.childIdToParentId = Erase(@, l)]
        st3 == [st2 EXCEPT !.links = Erase(@, l)]
        rest == Tail(keys)
    IN IF LinkMatches(linkInfo, modelIndex)
         THEN LinkScan_SkipAfterErase(
                [st |-> st3,
                 trace |-> r.trace \o <<Ev("visitLink", bulletWorld, l),
                                        Ev("removeRigidBody", bulletWorld, l),
                                        Ev("eraseAux", bulletWorld, l),
                                        Ev("eraseLink", bulletWorld, l)>>],
                IF rest = <<>> THEN rest ELSE Tail(rest),
                bulletWorld, modelIndex)
         ELSE LinkScan_SkipAfterErase(
                [st |-> r.st,
                 trace |-> r.trace \o <<Ev("visitLink", bulletWorld, l)>>],
                rest, bulletWorld, modelIndex)

(* lines 122-135: one pass over this->links *)
RECURSIVE LinkScan(_, _, _, _)
LinkScan(r, keys, bulletWorld, modelIndex) ==
  IF keys = <<>> THEN r
  ELSE
    LET l == Head(keys)
        linkInfo == r.st.links[l]
        st1 == removeRigidBody(r.st, bulletWorld, l)
        st2 == [st1 EXCEPT !.childIdToParentId = Erase(@, l)]
        st3 == [st2 EXCEPT !.links = Erase(@, l)]
        next ==
          IF LinkMatches(linkInfo, modelIndex)
            THEN [st |-> st3,
                  trace |-> r.trace \o <<Ev("visitLink", bulletWorld, l),
                                         Ev("removeRigidBody", bulletWorld, l),
                                         Ev("eraseAux", bulletWorld, l),
                                         Ev("eraseLink", bulletWorld, l)>>]
            ELSE [st |-> r.st,
                  trace |-> r.trace \o <<Ev("visitLink", bulletWorld, l)>>]
    IN LinkScan(next, Tail(keys), bulletWorld, modelIndex)

(* What the undefined read of ChildLinkMatches can yield in this store: it  *)
(* happens only when some joint's child link is not a key of links.        *)
UbChoices(st) ==
  IF \E j \in DOMAIN st.joints : st.joints[j].childLinkId \notin DOMAIN st.links
    THEN BOOLEAN ELSE {FALSE}

(* lines 137-139: the model record and the child-to-parent entry *)
ModelErase(r, bulletWorld, modelEntity, modelIndex) ==
  [st |-> [r.st EXCEPT !.models = Erase(@, modelEntity),
                       !.childIdToParentId = Erase(@, modelIndex)],
   trace |-> r.trace \o <<Ev("eraseModel", bulletWorld, modelEntity),
                          Ev("eraseAux", bulletWorld, modelIndex)>>]

(* the cascade with the link scan run ahead of the joint scan *)
Cascade_LinksFirst(st, modelEntity, modelIndex, ub) ==
  LET model == st.models[modelEntity]
      bulletWorld == model.world
      r0 == [st |-> st, trace |-> <<>>]
      r1 == LinkScan(r0, Ascending(DOMAIN st.links), bulletWorld, modelIndex)
      r2 == JointScan(r1, Ascending(DOMAIN r1.st.joints), bulletWorld,
                      modelIndex, ub)
      r3 == CollisionScan(r2, Ascending(DOMAIN r2.st.collisions),
                          bulletWorld, modelIndex)
  IN ModelErase(r3, bulletWorld, modelEntity, modelIndex)

(* lines 87-141: the cascade, once the model is known to exist *)
Cascade(st, modelEntity, modelIndex, ub) ==
  LET model == st.models[modelEntity]
      bulletWorld == model.world
      r0 == [st |-> st, trace |-> <<>>]
      r1 == JointScan(r0, Ascending(DOMAIN st.joints), bulletWorld,
                      modelIndex, ub)
      r2 == CollisionScan(r1, Ascending(DOMAIN r1.st.collisions),
                          bulletWorld, modelIndex)
      r3 == LinkScan(r2, Ascending(DOMAIN r2.st.links), bulletWorld,
                     modelIndex)
  IN ModelErase(r3, bulletWorld, modelEntity, modelIndex)

(* RemoveModelByIndex with the child-to-parent entry erased ahead of the   *)
(* existence check                                                         *)
RemoveModelByIndex_EraseFirst(st, worldID, modelIndex, ub) ==
  LET modelEntity == indexInContainerToId(st, worldID, modelIndex) IN
  IF modelEntity \notin DOMAIN st.models
    THEN [ret |-> FALSE,
          st |-> [st EXCEPT !.childIdToParentId = Erase(@, modelIndex)],
          trace |-> <<>>]
    ELSE LET r == Cascade(st, modelEntity, modelIndex, ub)
         IN [ret |-> TRUE, st |-> r.st, trace |-> r.trace]

(* lines 77-142 *)
RemoveModelByIndex(st, worldID, modelIndex, ub) ==
  LET modelEntity == indexInContainerToId(st, worldID, modelIndex) IN
  IF modelEntity \notin DOMAIN st.models
    THEN [ret |-> FALSE, st |-> st, trace |-> <<>>]
    ELSE LET r == Cascade(st, modelEntity, modelIndex, ub)
         IN [ret |-> TRUE, st |-> r.st, trace |-> r.trace]

(* lines 57-69 *)
RemoveModel(st, modelID, ub) ==
  IF modelID \notin DOMAIN st.models
    THEN [ret |-> FALSE, st |-> st, trace |-> <<>>]
    ELSE LET worldID == st.models[modelID].world
             modelIndex == idToIndexInContainer(st, modelID)
         IN RemoveModelByIndex(st, worldID, modelIndex, ub)

(* ModelRemoved looking the identity up in the child-to-parent map *)
ModelRemoved_ByParentMap(st, modelID) ==
  modelID \notin DOMAIN st.childIdToParentId

(* lines 71-75 *)
ModelRemoved(st, modelID) == modelID \notin DOMAIN st.models

(* the name scan with the comparison inverted *)
NameMatches_Inverted(st, modelName) ==
  {e \in DOMAIN st.models : st.models[e].name # modelName}

(* GetWorldCount counting the models *)
GetWorldCount_Models(st) == Cardinality(DOMAIN st.models)

(* lines 182-185 *)
GetWorldCount(st) == Cardinality(DOMAIN st.worlds)

(* lines 151-160: the models the scan can stop at.  The iteration order of *)
(* an unordered_map is unspecified, so any model with the name can be the  *)
(* first one met.                                                          *)
NameMatches(st, modelName) ==
  {e \in DOMAIN st.models : st.models[e].name = modelName}

(* RemoveModelByName handing the identity, not the index, on *)
RemoveModelByNameFound_ById(st, worldID, entity, ub) ==
  RemoveModelByIndex(st, worldID, entity, ub)

(* lines 162-168, for the model the scan stopped at *)
RemoveModelByNameFound(st, worldID, entity, ub) ==
  LET modelIndex == idToIndexInContainer(st, entity)
  IN RemoveModelByIndex(st, worldID, modelIndex, ub)

(* lines 144-169: every result the call can have *)
RemoveModelByName(st, worldID, modelName) ==
  IF NameMatches(st, modelName) = {}
    THEN {[ret |-> FALSE, st |-> st, trace |-> <<>>]}
    ELSE {RemoveModelByNameFound(st, worldID, e, ub) :
            e \in NameMatches(st, modelName), ub \in UbChoices(st)}

----------------------------------------------------------------------------
(* The state machine *)

Init ==
  /\ worlds = EmptyMap
  /\ models = EmptyMap
  /\ links = EmptyMap
  /\ collisions = EmptyMap
  /\ joints = EmptyMap
  /\ childIdToParentId = EmptyMap
  /\ entityCount = 0
  /\ bodies = EmptyMap
  /\ constraints = EmptyMap
  /\ call = NoCall
  /\ pre = EmptyStore
  /\ trace = <<>>
  /\ worldCalls = 0

(* the store after the call *)
Becomes(st) ==
  /\ worlds' = st.worlds
  /\ models' = st.models
  /\ links' = st.links
  /\ collisions' = st.collisions
  /\ joints' = st.joints
  /\ childIdToParentId' = st.childIdToParentId
  /\ entityCount' = st.entityCount
  /\ bodies' = st.bodies
  /\ constraints' = st.constraints
  /\ pre' = Store

Called(op, id, w, index, name, ret) ==
  /\ call' = [op |-> op, id |-> id, world |-> w, index |-> index,
              name |-> name, ret |-> ret]
  /\ worldCalls' = IF op = "ConstructEmptyWorld" THEN worldCalls + 1
                                                  ELSE worldCalls

(* no call is being looked at *)
Idle == call = NoCall

ConstructEmptyWorldCall ==
  /\ Idle
  /\ entityCount < MaxEntities
  /\ Cardinality(DOMAIN worlds) < MaxWorlds
  /\ \E name \in WorldNames :
       /\ Becomes(ConstructEmptyWorld(Store, name))
       /\ Called("ConstructEmptyWorld", entityCount, Invalid, Invalid, name, TRUE)
  /\ trace' = <<>>

ConstructModelCall ==
  /\ Idle
  /\ entityCount < MaxEntities
  /\ Cardinality(DOMAIN models) < MaxModels
  /\ \E w \in DOMAIN worlds, name \in ModelNames :
       /\ Becomes(AddModel(Store, w, name))
       /\ Called("ConstructModel", entityCount, w, Invalid, name, TRUE)
  /\ trace' = <<>>

ConstructLinkCall ==
  /\ Idle
  /\ entityCount < MaxEntities
  /\ \E m \in DOMAIN models :
       /\ Becomes(AddLink(Store, m))
       /\ Called("ConstructLink", entityCount, Invalid, Invalid, "", TRUE)
  /\ trace' = <<>>

ConstructCollisionCall ==
  /\ Idle
  /\ entityCount < MaxEntities
  /\ \E l \in LiveLinks(Store) :
       /\ Becomes(AddCollision(Store, l))
       /\ Called("ConstructCollision", entityCount, Invalid, Invalid, "", TRUE)
  /\ trace' = <<>>

ConstructJointCall ==
  /\ Idle
  /\ entityCount < MaxEntities
  /\ \E c \in LiveLinks(Store), p \in LiveLinks(Store) :
       /\ c # p
       /\ WorldOfLink(Store, c) = WorldOfLink(Store, p)
       /\ Becomes(AddJoint(Store, c, p))
       /\ Called("ConstructJoint", entityCount, Invalid, Invalid, "", TRUE)
  /\ trace' = <<>>

RemoveModelCall ==
  /\ Idle
  /\ \E modelID \in ArgIds(Store), ub \in UbChoices(Store) :
    LET res == RemoveModel(Store, modelID, ub) IN
    /\ Becomes(res.st)
    /\ Called("RemoveModel", modelID, Invalid, Invalid, "", res.ret)
    /\ trace' = res.trace

RemoveModelByIndexCall ==
  /\ Idle
  /\ \E worldID \in DOMAIN worlds, modelIndex \in ArgIndices, ub \in UbChoices(Store) :
    LET res == RemoveModelByIndex(Store, worldID, modelIndex, ub) IN
    /\ Becomes(res.st)
    /\ Called("RemoveModelByIndex", Invalid, worldID, modelIndex, "", res.ret)
    /\ trace' = res.trace

RemoveModelByNameCall ==
  /\ Idle
  /\ \E worldID \in DOMAIN worlds, modelName \in ModelNames \cup {NoSuchName} :
    \E res \in RemoveModelByName(Store, worldID, modelName) :
      /\ Becomes(res.st)
      /\ Called("RemoveModelByName", Invalid, worldID, Invalid, modelName, res.ret)
      /\ trace' = res.trace

ModelRemovedCall ==
  /\ Idle
  /\ \E modelID \in ArgIds(Store) :
    /\ Becomes(Store)
    /\ Called("ModelRemoved", modelID, Invalid, Invalid, "", ModelRemoved(Store, modelID))
    /\ trace' = <<>>

(* The caller has taken the result: the history of the call is dropped,    *)
(* the store stays as the call left it.                                    *)
Return ==
  /\ ~Idle
  /\ call' = NoCall
  /\ pre' = EmptyStore
  /\ trace' = <<>>
  /\ UNCHANGED <<worlds, models, links, collisions, joints,
                 childIdToParentId, entityCount, bodies, constraints,
                 worldCalls>>

Next ==
  \/ ConstructEmptyWorldCall
  \/ ConstructModelCall
  \/ ConstructLinkCall
  \/ ConstructCollisionCall
  \/ ConstructJointCall
  \/ RemoveModelCall
  \/ RemoveModelByIndexCall
  \/ RemoveModelByNameCall
  \/ ModelRemovedCall
  \/ Return

Spec == Init /\ [][Next]_vars

TypeOK ==
  /\ entityCount \in 0 .. MaxEntities
  /\ DOMAIN worlds \subseteq Ids
  /\ DOMAIN models \subseteq Ids

----------------------------------------------------------------------------
(* Vocabulary of the properties *)

RemovalOps == {"RemoveModel", "RemoveModelByIndex", "RemoveModelByName"}

(* the call left every mapping and every native attachment as it was *)
StoreUnchanged == Store = pre

(* the links, collisions and joints model m owns in store st; a joint is   *)
(* owned through its child link                                            *)
LinksOf(st, m) == {l \in DOMAIN st.links : st.links[l].model = m}

CollisionsOf(st, m) ==
  {c \in DOMAIN st.collisions : st.collisions[c].model = m}

JointsOf(st, m) ==
  {j \in DOMAIN st.joints :
     /\ st.joints[j].childLinkId \in DOMAIN st.links
     /\ st.links[st.joints[j].childLinkId].model = m}

(* the worlds whose native world has body l / constraint j attached *)
BodyWorlds(st, l) == {w \in DOMAIN st.bodies : l \in st.bodies[w]}

ConstraintWorlds(st, j) == {w \in DOMAIN st.constraints : j \in st.constraints[w]}

Issued(ev, w, id) == \E i \in DOMAIN trace : trace[i] = Ev(ev, w, id)

(* the live models of store st that have name n *)
ModelsNamed(st, n) == {m \in DOMAIN st.models : st.models[m].name = n}

(* the models a removal call is aimed at *)
Targets ==
  IF call.op = "RemoveModel" THEN {call.id}
  ELSE IF call.op = "RemoveModelByIndex"
    THEN {m \in DOMAIN pre.models :
            /\ pre.models[m].world = call.world
            /\ idToIndexInContainer(pre, m) = call.index}
  ELSE IF call.op = "RemoveModelByName"
    THEN {m \in ModelsNamed(pre, call.name) : pre.models[m].world = call.world}
  ELSE {}

(* model m2, what it owns and the native attachments of that are as        *)
(* before the call                                                         *)
Untouched(m2) ==
  /\ m2 \in DOMAIN models /\ models[m2] = pre.models[m2]
  /\ \A l \in LinksOf(pre, m2) :
       /\ l \in DOMAIN links /\ links[l] = pre.links[l]
       /\ BodyWorlds(Store, l) = BodyWorlds(pre, l)
  /\ \A c \in CollisionsOf(pre, m2) :
       c \in DOMAIN collisions /\ collisions[c] = pre.collisions[c]
  /\ \A j \in JointsOf(pre, m2) :
       /\ j \in DOMAIN joints /\ joints[j] = pre.joints[j]
       /\ ConstraintWorlds(Store, j) = ConstraintWorlds(pre, j)

----------------------------------------------------------------------------
(* C1 -- Cascade completeness, store side: after RemoveModel(m) has        *)
(* returned true, m is not a key of models, and no link of m, no collision *)
(* of m and no joint whose child link belonged to m is left in links,      *)
(* collisions or joints.                                                   *)
C1_CascadeStore ==
  (call.op = "RemoveModel" /\ call.ret) =>
     /\ call.id \notin DOMAIN models
     /\ LinksOf(pre, call.id) \cap DOMAIN links = {}
     /\ CollisionsOf(pre, call.id) \cap DOMAIN collisions = {}
     /\ JointsOf(pre, call.id) \cap DOMAIN joints = {}

(* C2 -- Cascade completeness, native side: after RemoveModel(m) has       *)
(* returned true, the native world of m's world has no rigid body of a     *)
(* link of m and no constraint of a joint whose child link belonged to m   *)
(* attached, removeRigidBody / removeConstraint having been issued for     *)
(* each.                                                                   *)
C2_CascadeNative ==
  (call.op = "RemoveModel" /\ call.ret) =>
     LET w == pre.models[call.id].world IN
     /\ \A l \in LinksOf(pre, call.id) :
          l \notin bodies[w] /\ Issued("removeRigidBody", w, l)
     /\ \A j \in JointsOf(pre, call.id) :
          j \notin constraints[w] /\ Issued("removeConstraint", w, j)

(* C3 -- No collateral damage: a removal call aimed at model m leaves      *)
(* every other live model m2, the links and collisions of m2, the joints   *)
(* whose child link belongs to m2, and their native attachments as they    *)
(* were.                                                                   *)
C3_NoCollateral ==
  (call.op \in RemovalOps /\ Targets \cap DOMAIN pre.models # {}) =>
     \A m2 \in DOMAIN pre.models : m2 \notin Targets => Untouched(m2)

(* C4 -- Not-found is a no-op: RemoveModel of an identity that is not a    *)
(* key of models, and RemoveModelByIndex(w, i) where no live model of w    *)
(* has index i, return false and change nothing; and no removal call       *)
(* returns false having changed anything.                                  *)
C4_NotFoundNoOp ==
  /\ (call.op = "RemoveModel" /\ call.id \notin DOMAIN pre.models) =>
        (~call.ret /\ StoreUnchanged)
  /\ (call.op = "RemoveModelByIndex" /\ Targets = {}) =>
        (~call.ret /\ StoreUnchanged)
  /\ (call.op \in RemovalOps /\ ~call.ret) => StoreUnchanged

C4_Witness ==
  /\ call.op = "RemoveModelByIndex"
  /\ ~call.ret
  /\ \E m \in DOMAIN pre.models :
       pre.models[m].world = call.world /\ LinksOf(pre, m) # {}

(* C5 -- Idempotence: RemoveModel(m) of a live model m returns true, after *)
(* it ModelRemoved(m) is true, and a second RemoveModel(m) returns false   *)
(* and changes nothing.                                                    *)
C5_Idempotence ==
  (call.op = "RemoveModel" /\ call.id \in DOMAIN pre.models) =>
     /\ call.ret
     /\ ModelRemoved(Store, call.id)
     /\ \A ub \in UbChoices(Store) :
          LET again == RemoveModel(Store, call.id, ub)
          IN ~again.ret /\ again.st = Store

(* C6 -- Name-lookup equivalence: when exactly one model has name n and    *)
(* it belongs to world w, RemoveModelByName(w, n) returns what RemoveModel *)
(* of that model returns from the same store, and leaves the same store    *)
(* and native worlds.                                                      *)
C6_NameLookupEquivalence ==
  (/\ call.op = "RemoveModelByName"
   /\ \E m \in DOMAIN pre.models :
        ModelsNamed(pre, call.name) = {m} /\ pre.models[m].world = call.world)
  => LET m == CHOOSE x \in ModelsNamed(pre, call.name) : TRUE IN
     \E ub \in UbChoices(pre) :
        RemoveModel(pre, m, ub) = [ret |-> call.ret, st |-> Store, trace |-> trace]

C6_Witness ==
  /\ call.op = "RemoveModelByName"
  /\ call.ret
  /\ \E m \in DOMAIN pre.models :
       /\ ModelsNamed(pre, call.name) = {m}
       /\ pre.models[m].world = call.world
       /\ Cardinality(DOMAIN pre.models) > 1
       /\ LinksOf(pre, m) # {}

(* C7 -- RemoveModelByName(w, n) when no model has name n returns false    *)
(* and changes no mapping and no native attachment.                        *)
C7_NameNotFound ==
  (call.op = "RemoveModelByName" /\ ModelsNamed(pre, call.name) = {}) =>
     (~call.ret /\ StoreUnchanged)

C7_Witness ==
  /\ call.op = "RemoveModelByName"
  /\ call.name = NoSuchName
  /\ ~call.ret
  /\ \E m \in DOMAIN pre.models : pre.models[m].world = call.world

(* C8 -- ModelRemoved(id) is a pure query: it returns true exactly when id *)
(* is not a key of models, never-inserted identities included, and it      *)
(* changes nothing.                                                        *)
C8_ModelRemovedPure ==
  (call.op = "ModelRemoved") =>
     /\ call.ret <=> (call.id \notin DOMAIN pre.models)
     /\ StoreUnchanged

C8_Witness ==
  /\ call.op = "ModelRemoved"
  /\ call.ret
  /\ call.id = pre.entityCount
  /\ DOMAIN pre.models # {}

(* C9 -- Owner liveness: the model of every link and of every collision is *)
(* a key of models, the child link of every joint is a key of links, and   *)
(* the world of every model is a key of worlds.                            *)
C9_OwnerLiveness ==
  /\ \A l \in DOMAIN links : links[l].model \in DOMAIN models
  /\ \A c \in DOMAIN collisions : collisions[c].model \in DOMAIN models
  /\ \A j \in DOMAIN joints : joints[j].childLinkId \in DOMAIN links
  /\ \A m \in DOMAIN models : models[m].world \in DOMAIN worlds

(* the owner the record of a live entity names *)
OwnerOf(k) ==
  IF k \in DOMAIN models THEN models[k].world
  ELSE IF k \in DOMAIN links THEN links[k].model
  ELSE IF k \in DOMAIN collisions THEN collisions[k].model
  ELSE links[joints[k].childLinkId].model

(* C10 -- Lockstep: the keys of childIdToParentId are exactly the live     *)
(* model, link, collision and joint identities, and each entry's parent is *)
(* the owner the entity's record names.                                    *)
C10_Lockstep ==
  /\ DOMAIN childIdToParentId =
       DOMAIN models \cup DOMAIN links \cup DOMAIN collisions \cup DOMAIN joints
  /\ \A k \in DOMAIN childIdToParentId : childIdToParentId[k] = OwnerOf(k)

(* positions in trace of the events of the given kinds *)
EvIdx(kinds) == {i \in DOMAIN trace : trace[i].ev \in kinds}

(* every position of A comes before every position of B *)
AllBefore(A, B) == \A i \in A, k \in B : i < k

ErasedModels == DOMAIN pre.models \ DOMAIN models

(* C12 -- RemoveModelByName(w, n) that returns true erased a model record  *)
(* whose name is n, and erased no model whose name differs from n.         *)
C12_NameTargetsName ==
  (call.op = "RemoveModelByName" /\ call.ret) =>
     /\ ErasedModels # {}
     /\ \A m \in ErasedModels : pre.models[m].name = call.name

(* C13 -- Identity/index round trip: for every live model m of world w,    *)
(* indexInContainerToId(w, idToIndexInContainer(m)) = m, so RemoveModel(m) *)
(* erases exactly the record keyed by m; and indexInContainerToId(w, i) is *)
(* not a key of models when i is the index of no live model of w.          *)
C13_RoundTrip ==
  /\ \A m \in DOMAIN models :
       indexInContainerToId(Store, models[m].world,
                            idToIndexInContainer(Store, m)) = m
  /\ (call.op = "RemoveModel" /\ call.id \in DOMAIN pre.models) =>
        ErasedModels = {call.id}
  /\ \A w \in DOMAIN worlds, i \in ArgIndices :
       (\A m \in DOMAIN models :
          models[m].world = w => idToIndexInContainer(Store, m) # i)
       => indexInContainerToId(Store, w, i) \notin DOMAIN models

(* C14 -- Worlds are never removed and construction is isolated:           *)
(* ConstructEmptyWorld adds exactly one world record and leaves models,    *)
(* links, collisions and joints as they were; no removal call erases or    *)
(* alters a world record; GetWorldCount never decreases and equals the     *)
(* number of ConstructEmptyWorld calls made.                               *)
C14_WorldsOnlyGrow ==
  /\ GetWorldCount(Store) = worldCalls
  /\ (call.op # "none") => GetWorldCount(Store) >= GetWorldCount(pre)
  /\ (call.op = "ConstructEmptyWorld") =>
        /\ call.id \notin DOMAIN pre.worlds
        /\ DOMAIN worlds = DOMAIN pre.worlds \cup {call.id}
        /\ \A w \in DOMAIN pre.worlds : worlds[w] = pre.worlds[w]
        /\ models = pre.models /\ links = pre.links
        /\ collisions = pre.collisions /\ joints = pre.joints
  /\ (call.op \in RemovalOps) => worlds = pre.worlds

C14_Witness ==
  /\ call.op \in RemovalOps
  /\ call.ret
  /\ worldCalls = 2
  /\ GetWorldCount(pre) = 2

(* every entry of map g is an entry of map f *)
SubMap(g, f) == \A k \in DOMAIN g : k \in DOMAIN f /\ g[k] = f[k]

ChildLinksPresent ==
  \A j \in DOMAIN joints : joints[j].childLinkId \in DOMAIN links

(* the link, collision and joint records the call erased *)
ErasedChildren ==
  (DOMAIN pre.links \ DOMAIN links)
    \cup (DOMAIN pre.collisions \ DOMAIN collisions)
    \cup (DOMAIN pre.joints \ DOMAIN joints)

(* C16 -- Auxiliary-mapping frame: a successful removal erases from        *)
(* childIdToParentId only the entries keyed by the removed model and by    *)
(* the joints, collisions and links removed with it; the entry of every    *)
(* other entity is left as it was.                                         *)
C16_AuxFrame ==
  (call.op \in RemovalOps /\ call.ret) =>
     \A k \in DOMAIN pre.childIdToParentId :
        k \notin (ErasedModels \cup ErasedChildren) =>
           /\ k \in DOMAIN childIdToParentId
           /\ childIdToParentId[k] = pre.childIdToParentId[k]

(* the world a link / a joint of store st belongs to, through its model;   *)
(* none when the owner chain is broken                                     *)
WorldsOfLink(st, l) ==
  {st.models[m].world : m \in {st.links[l].model} \cap DOMAIN st.models}

WorldsOfJoint(st, j) ==
  UNION {WorldsOfLink(st, c) : c \in {st.joints[j].childLinkId} \cap DOMAIN st.links}

(* C17 -- Native detach stays within the owning world: every               *)
(* removeConstraint and removeRigidBody a removal issues goes to the       *)
(* native world of the removed model's world, and only for a handle of an  *)
(* entity of that world; none goes to, or for a handle attached to,        *)
(* another world's native world.                                           *)
C17_DetachWithinWorld ==
  (call.op \in RemovalOps /\ call.ret) =>
     /\ \A i \in EvIdx({"removeRigidBody", "removeConstraint"}) :
          \A m \in ErasedModels : trace[i].world = pre.models[m].world
     /\ \A i \in EvIdx({"removeRigidBody"}) :
          /\ WorldsOfLink(pre, trace[i].id) \subseteq {trace[i].world}
          /\ BodyWorlds(pre, trace[i].id) \subseteq {trace[i].world}
     /\ \A i \in EvIdx({"removeConstraint"}) :
          /\ WorldsOfJoint(pre, trace[i].id) \subseteq {trace[i].world}
          /\ ConstraintWorlds(pre, trace[i].id) \subseteq {trace[i].world}

(* the number of visits of entry k the trace records for a scan *)
Visits(kind, k) ==
  Cardinality({i \in EvIdx({kind}) : trace[i].id = k})

(* C18 -- Termination: every removal call ends with a boolean result, and  *)
(* in a call that runs the cascade each of the joint, collision and link   *)
(* scans visits every entry of its mapping exactly once and no other.      *)
C18_ScansVisitOnce ==
  (call.op \in RemovalOps) =>
     /\ call.ret \in BOOLEAN
     /\ ~call.ret => trace = <<>>
     /\ call.ret =>
          /\ \A j \in DOMAIN pre.joints : Visits("visitJoint", j) = 1
          /\ \A c \in DOMAIN pre.collisions : Visits("visitCollision", c) = 1
          /\ \A l \in DOMAIN pre.links : Visits("visitLink", l) = 1
          /\ \A i \in EvIdx({"visitJoint"}) : trace[i].id \in DOMAIN pre.joints
          /\ \A i \in EvIdx({"visitCollision"}) :
               trace[i].id \in DOMAIN pre.collisions
          /\ \A i \in EvIdx({"visitLink"}) : trace[i].id \in DOMAIN pre.links

(* a cascade over a store with joints and links, some erased, some skipped *)
C18_Witness ==
  /\ call.op \in RemovalOps
  /\ call.ret
  /\ DOMAIN pre.joints # {}
  /\ EvIdx({"eraseLink"}) # {}
  /\ DOMAIN links # {}

=============================================================================
